---- MODULE Spec2Model ----
(***************************************************************************)
(* Model of the propositional-logic tautology checker of src/app.py (the   *)
(* Flask form handler) and src/chat_bot12.py (the REPL).  Both programs    *)
(* rewrite the formula text into a Python expression with str.replace and  *)
(* re.sub and hand it to eval(); the model follows the text character by   *)
(* character and then tokenizes, parses and evaluates the rewritten text   *)
(* the way eval() does.                                                    *)
(*                                                                         *)
(* A text is a sequence of one-character strings.                          *)
(***************************************************************************)
EXTENDS Integers, Sequences, FiniteSets, TLC

\* ------------------------------------------------------------------ bounds
\* Every text of at most MaxLen lexemes is an input.
MaxLen == 3

\* ------------------------------------------------------------- characters
UpperSeq == << "A","B","C","D","E","F","G","H","I","J","K","L","M",
               "N","O","P","Q","R","S","T","U","V","W","X","Y","Z" >>
LowerSeq == << "a","b","c","d","e","f","g","h","i","j","k","l","m",
               "n","o","p","q","r","s","t","u","v","w","x","y","z" >>
Upper == { UpperSeq[k] : k \in 1..26 }
Lower == { LowerSeq[k] : k \in 1..26 }

\* str.isalpha / str.islower / \s / \w on one character
isalpha(c) == c \in Upper \cup Lower
islower(c) == c \in Lower
isspace(c) == c = " "
IsWord(c)  == c \in Upper \cup Lower

\* str.lower on one character, then on a text
LowerChar(c) ==
  IF c \in Upper THEN LowerSeq[CHOOSE k \in 1..26 : UpperSeq[k] = c] ELSE c
lower(s) == [ k \in 1..Len(s) |-> LowerChar(s[k]) ]

\* ------------------------------------------------------- text primitives
RECURSIVE replace(_, _, _)
\* str.replace(old, new): leftmost, non-overlapping occurrences
replace(s, old, new) ==
  IF Len(s) < Len(old) THEN s
  ELSE IF SubSeq(s, 1, Len(old)) = old
       THEN new \o replace(SubSeq(s, Len(old) + 1, Len(s)), old, new)
       ELSE << s[1] >> \o replace(Tail(s), old, new)

RECURSIVE lstrip(_)
lstrip(s) == IF s # << >> /\ isspace(s[1]) THEN lstrip(Tail(s)) ELSE s
RECURSIVE rstrip(_)
rstrip(s) ==
  IF s # << >> /\ isspace(s[Len(s)]) THEN rstrip(SubSeq(s, 1, Len(s) - 1)) ELSE s
\* str.strip()
strip(s) == rstrip(lstrip(s))

\* length of the longest prefix of s made of characters satisfying the test
RECURSIVE SpaceRun(_)
SpaceRun(s) == IF s # << >> /\ isspace(s[1]) THEN 1 + SpaceRun(Tail(s)) ELSE 0
RECURSIVE UpperRun(_)
UpperRun(s) == IF s # << >> /\ s[1] \in Upper THEN 1 + UpperRun(Tail(s)) ELSE 0
RECURSIVE WordRun(_)
WordRun(s) == IF s # << >> /\ IsWord(s[1]) THEN 1 + WordRun(Tail(s)) ELSE 0

RECURSIVE CollapseSpaces(_)
\* re.sub(r'\s+', ' ', s)
CollapseSpaces(s) ==
  IF s = << >> THEN s
  ELSE IF isspace(s[1])
       THEN << " " >> \o CollapseSpaces(SubSeq(s, SpaceRun(s) + 1, Len(s)))
       ELSE << s[1] >> \o CollapseSpaces(Tail(s))

Drop(s, n) == SubSeq(s, n + 1, Len(s))

RECURSIVE ParenthesizeNot(_)
\* re.sub(r'(not\s+)([A-Z]+)', r'not (\2)', s)
ParenthesizeNot(s) ==
  IF Len(s) < 5 THEN s
  ELSE IF SubSeq(s, 1, 3) = << "n", "o", "t" >>
       THEN LET ws == SpaceRun(Drop(s, 3))
                up == UpperRun(Drop(s, 3 + ws))
            IN  IF ws >= 1 /\ up >= 1
                THEN << "n", "o", "t", " ", "(" >>
                       \o SubSeq(s, 3 + ws + 1, 3 + ws + up)
                       \o << ")" >>
                       \o ParenthesizeNot(Drop(s, 3 + ws + up))
                ELSE << s[1] >> \o ParenthesizeNot(Tail(s))
       ELSE << s[1] >> \o ParenthesizeNot(Tail(s))

RECURSIVE SubWord(_, _, _, _)
\* re.sub(r'\b' + prop + r'\b', value, s); prev is the character before s
SubWord(s, prop, value, prev) ==
  IF s = << >> THEN s
  ELSE IF /\ s[1] = prop
          /\ ~IsWord(prev)
          /\ (Len(s) = 1 \/ ~IsWord(s[2]))
       THEN value \o SubWord(Tail(s), prop, value, s[1])
       ELSE << s[1] >> \o SubWord(Tail(s), prop, value, s[1])

\* ------------------------------------------------ the rewritten expression
\* evaluate_expression of app.py, lines 10-25: the text handed to eval()
RewriteApp(expression) ==
  LET e1 == replace(expression, << "-", ">" >>,
                    << " ", "i", "m", "p", "l", "i", "e", "s", " " >>)
      e2 == replace(e1, << "<", "-", ">" >>, << " ", "i", "f", "f", " " >>)
      e3 == replace(e2, << "^" >>, << " ", "a", "n", "d", " " >>)
      e4 == replace(e3, << "&" >>, << " ", "a", "n", "d", " " >>)
      e5 == replace(e4, << "v" >>, << " ", "o", "r", " " >>)
      e6 == replace(e5, << "~" >>, << " ", "n", "o", "t", " " >>)
      e7 == replace(e6, << "!" >>, << " ", "n", "o", "t", " " >>)
      e8 == strip(CollapseSpaces(e7))
  IN  ParenthesizeNot(e8)

\* evaluate_expression of chat_bot12.py, lines 15-21
RewriteChat(expression) ==
  LET e1 == replace(expression, << "-", ">" >>,
                    << "i", "m", "p", "l", "i", "e", "s" >>)
      e2 == replace(e1, << "<", "-", ">" >>, << "i", "f", "f" >>)
      e3 == replace(e2, << "^" >>, << "a", "n", "d" >>)
      e4 == replace(e3, << "&" >>, << "a", "n", "d" >>)
      e5 == replace(e4, << "v" >>, << "o", "r" >>)
      e6 == replace(e5, << "~" >>, << "n", "o", "t", " " >>)
  IN  replace(e6, << "!" >>, << "n", "o", "t", " " >>)

\* str(value) of a bool
StrBool(b) == IF b = "True" THEN << "T", "r", "u", "e" >>
              ELSE << "F", "a", "l", "s", "e" >>

RECURSIVE SubstituteProps(_, _, _, _)
\* chat_bot12.py lines 31-34: the loop over assignment.items(), in props order
SubstituteProps(expr, props, assignment, k) ==
  IF k > Len(props) THEN expr
  ELSE SubstituteProps(SubWord(expr, props[k], StrBool(assignment[props[k]]), " "),
                       props, assignment, k + 1)

\* --------------------------------------------------------- eval(): tokens
\* Python's tokenizer on the rewritten text: identifiers and keywords, ( ) <.
\* The rewritten text of the inputs drawn here holds letters, spaces, ( ) and <
\* only (RewrittenAlphabet below), and none of its identifiers is a builtin or
\* a keyword other than and, or, not, True, False; a token is its own text.
RECURSIVE PyTokenize(_)
PyTokenize(s) ==
  IF s = << >> THEN << >>
  ELSE IF isspace(s[1]) THEN PyTokenize(Tail(s))
  ELSE IF IsWord(s[1])
       THEN << SubSeq(s, 1, WordRun(s)) >> \o PyTokenize(Drop(s, WordRun(s)))
       ELSE << << s[1] >> >> \o PyTokenize(Tail(s))

kwAnd   == << "a", "n", "d" >>
kwOr    == << "o", "r" >>
kwNot   == << "n", "o", "t" >>
kwTrue  == << "T", "r", "u", "e" >>
kwFalse == << "F", "a", "l", "s", "e" >>
tLpar   == << "(" >>
tRpar   == << ")" >>
tLess   == << "<" >>
nmImplies == << "i", "m", "p", "l", "i", "e", "s" >>
nmIff     == << "i", "f", "f" >>

IsName(t) == IsWord(t[1]) /\ t \notin { kwAnd, kwOr, kwNot, kwTrue, kwFalse }

\* --------------------------------------------------------- eval(): parser
\* Python's expression grammar restricted to the tokens above:
\*   disjunction: conjunction ('or' conjunction)*
\*   conjunction: inversion ('and' inversion)*
\*   inversion:   'not' inversion | comparison
\*   comparison:  primary ('<' primary)*
\*   primary:     atom ( '(' [disjunction] ')' )*
\*   atom:        NAME | 'True' | 'False' | '(' ')' | '(' disjunction ')'
\* A parse result is [ok, i, ast]: i is the index of the next unread token.
Fail == [ ok |-> FALSE, i |-> 0, ast |-> [ op |-> "none" ] ]
Ok(i, ast) == [ ok |-> TRUE, i |-> i, ast |-> ast ]
At(toks, i) == IF i <= Len(toks) THEN toks[i] ELSE << "EOF" >>

RECURSIVE PyRule(_, _, _, _)
\* One grammar rule applied at token i; acc is what the rule has read so far
\* (the operands of a comparison, the callee of a call).
PyRule(rule, toks, i, acc) ==
  CASE rule = "atom" ->
         LET t == At(toks, i) IN
         IF i > Len(toks) THEN Fail
         ELSE IF t = kwTrue THEN Ok(i + 1, [ op |-> "const", v |-> "True" ])
         ELSE IF t = kwFalse THEN Ok(i + 1, [ op |-> "const", v |-> "False" ])
         ELSE IF t = tLpar
              THEN IF i + 1 <= Len(toks) /\ At(toks, i + 1) = tRpar
                   THEN Ok(i + 2, [ op |-> "const", v |-> "()" ])
                   ELSE LET r == PyRule("disjunction", toks, i + 1, << >>) IN
                        IF r.ok /\ r.i <= Len(toks) /\ At(toks, r.i) = tRpar
                        THEN Ok(r.i + 1, r.ast)
                        ELSE Fail
         ELSE IF IsName(t) THEN Ok(i + 1, [ op |-> "name", id |-> t ])
         ELSE Fail
    [] rule = "primary" ->
         LET a == PyRule("atom", toks, i, << >>) IN
         IF a.ok THEN PyRule("trailers", toks, a.i, a.ast) ELSE Fail
    [] rule = "trailers" ->
         IF i <= Len(toks) /\ At(toks, i) = tLpar
         THEN IF i + 1 <= Len(toks) /\ At(toks, i + 1) = tRpar
              THEN PyRule("trailers", toks, i + 2,
                          [ op |-> "call", f |-> acc, args |-> << >> ])
              ELSE LET r == PyRule("disjunction", toks, i + 1, << >>) IN
                   IF r.ok /\ r.i <= Len(toks) /\ At(toks, r.i) = tRpar
                   THEN PyRule("trailers", toks, r.i + 1,
                               [ op |-> "call", f |-> acc, args |-> << r.ast >> ])
                   ELSE Fail
         ELSE Ok(i, acc)
    [] rule = "comparison" ->
         LET a == PyRule("primary", toks, i, << >>) IN
         IF a.ok THEN PyRule("compare_rest", toks, a.i, << a.ast >>) ELSE Fail
    [] rule = "compare_rest" ->
         IF i <= Len(toks) /\ At(toks, i) = tLess
         THEN LET r == PyRule("primary", toks, i + 1, << >>) IN
              IF r.ok THEN PyRule("compare_rest", toks, r.i, Append(acc, r.ast))
              ELSE Fail
         ELSE Ok(i, IF Len(acc) = 1 THEN acc[1] ELSE [ op |-> "cmp", xs |-> acc ])
    [] rule = "inversion" ->
         IF i <= Len(toks) /\ At(toks, i) = kwNot
         THEN LET r == PyRule("inversion", toks, i + 1, << >>) IN
              IF r.ok THEN Ok(r.i, [ op |-> "not", a |-> r.ast ]) ELSE Fail
         ELSE PyRule("comparison", toks, i, << >>)
    [] rule = "conjunction" ->
         LET a == PyRule("inversion", toks, i, << >>) IN
         IF ~a.ok THEN Fail
         ELSE IF a.i <= Len(toks) /\ At(toks, a.i) = kwAnd
              THEN LET r == PyRule("conjunction", toks, a.i + 1, << >>) IN
                   IF r.ok
                   THEN Ok(r.i, [ op |-> "and", a |-> a.ast, b |-> r.ast ])
                   ELSE Fail
              ELSE a
    [] rule = "disjunction" ->
         LET a == PyRule("conjunction", toks, i, << >>) IN
         IF ~a.ok THEN Fail
         ELSE IF a.i <= Len(toks) /\ At(toks, a.i) = kwOr
              THEN LET r == PyRule("disjunction", toks, a.i + 1, << >>) IN
                   IF r.ok
                   THEN Ok(r.i, [ op |-> "or", a |-> a.ast, b |-> r.ast ])
                   ELSE Fail
              ELSE a

\* compile(text, 'eval'): the tree, or a SyntaxError when the text is not one
\* expression followed by the end of the input
PyParse(text) ==
  LET toks == PyTokenize(text)
      r    == PyRule("disjunction", toks, 1, << >>)
  IN  IF r.ok /\ r.i = Len(toks) + 1 THEN r ELSE Fail

\* ------------------------------------------------------ eval(): evaluation
\* Values: "True", "False", "()" (the empty tuple), "fn" (implies, iff);
\* "raise" is an exception (NameError, TypeError).
Truthy(v) == v \in { "True", "fn" }
PyNot(v) == IF Truthy(v) THEN "False" ELSE "True"
\* a < b
PyLess(a, b) ==
  IF a \in { "True", "False" } /\ b \in { "True", "False" }
  THEN (IF a = "False" /\ b = "True" THEN "True" ELSE "False")
  ELSE IF a = "()" /\ b = "()" THEN "False"
  ELSE "raise"
\* implies(a, b) and iff(a, b), lines 28-29 of app.py, 24-28 of chat_bot12.py:
\* every call the grammar above can make passes no or one argument to a
\* two-parameter function, or calls a bool or a tuple: a TypeError
PyCall(f, args) == "raise"

\* a name: the locals, then the globals, then a NameError
Lookup(id, locals) ==
  IF Len(id) = 1 /\ id[1] \in DOMAIN locals THEN locals[id[1]]
  ELSE IF id \in { nmImplies, nmIff } THEN "fn"
  ELSE "raise"

RECURSIVE PyEval(_, _)
RECURSIVE PyEvalChain(_, _, _, _)
PyEval(ast, locals) ==
  CASE ast.op = "const" -> ast.v
    [] ast.op = "name"  -> Lookup(ast.id, locals)
    [] ast.op = "not"   -> LET a == PyEval(ast.a, locals) IN
                           IF a = "raise" THEN "raise" ELSE PyNot(a)
    [] ast.op = "and"   -> LET a == PyEval(ast.a, locals) IN
                           IF a = "raise" THEN "raise"
                           ELSE IF ~Truthy(a) THEN a ELSE PyEval(ast.b, locals)
    [] ast.op = "or"    -> LET a == PyEval(ast.a, locals) IN
                           IF a = "raise" THEN "raise"
                           ELSE IF Truthy(a) THEN a ELSE PyEval(ast.b, locals)
    [] ast.op = "cmp"   -> LET a == PyEval(ast.xs[1], locals) IN
                           IF a = "raise" THEN "raise"
                           ELSE PyEvalChain(ast.xs, 2, a, locals)
    [] ast.op = "call"  -> LET f == PyEval(ast.f, locals) IN
                           IF f = "raise" THEN "raise"
                           ELSE IF \E k \in 1..Len(ast.args) :
                                     PyEval(ast.args[k], locals) = "raise"
                                THEN "raise"
                                ELSE PyCall(f, ast.args)
\* a < b < c: each operand once, left to right, stopping at the first false
PyEvalChain(xs, k, left, locals) ==
  LET b == PyEval(xs[k], locals) IN
  IF b = "raise" THEN "raise"
  ELSE LET r == PyLess(left, b) IN
       IF r = "raise" \/ ~Truthy(r) \/ k = Len(xs) THEN r
       ELSE PyEvalChain(xs, k + 1, b, locals)

\* eval(text, globals, locals) under try/except: the value, or False on any
\* exception (app.py lines 40-46, chat_bot12.py lines 37-43)
EvalOrFalse(text, locals) ==
  LET r == PyParse(text) IN
  IF ~r.ok THEN "False"
  ELSE LET v == PyEval(r.ast, locals) IN
       IF v = "raise" THEN "False" ELSE v

\* no locals: chat_bot12.py passes {} and has put the values into the text
NoLocals == [ c \in {} |-> "True" ]

\* evaluate_expression(expression, assignment) of each program
evaluate_expression(prog, expression, props, assignment) ==
  IF prog = "app"
  THEN EvalOrFalse(RewriteApp(expression), assignment)
  ELSE EvalOrFalse(SubstituteProps(RewriteChat(expression), props, assignment, 1),
                   NoLocals)

\* ----------------------------------------------------------- check_validity
\* get_propositions with [A-Za-z] for [A-Z]: lowercase letters count as symbols
get_propositions_anycase(expression) ==
  SelectSeq(UpperSeq \o LowerSeq,
            LAMBDA c : \E k \in 1..Len(expression) : expression[k] = c)

\* get_propositions: sorted(set(re.findall(r'[A-Z]', expression)))
get_propositions(expression) ==
  SelectSeq(UpperSeq, LAMBDA c : \E k \in 1..Len(expression) : expression[k] = c)

RECURSIVE product(_)
\* list(itertools.product([True, False], repeat=n)): the first position is the
\* slowest to change and True comes before False
product(n) ==
  IF n = 0 THEN << << >> >>
  ELSE LET rest == product(n - 1) IN
       [ k \in 1..Len(rest) |-> << "True" >> \o rest[k] ]
         \o [ k \in 1..Len(rest) |-> << "False" >> \o rest[k] ]

\* dict(zip(props, assignment_tuple))
zip(props, tuple) ==
  [ c \in { props[k] : k \in 1..Len(props) } |->
      tuple[CHOOSE k \in 1..Len(props) : props[k] = c] ]

\* the items of the dict, in insertion order
items(props, tuple) == [ k \in 1..Len(props) |-> << props[k], tuple[k] >> ]

RECURSIVE join(_, _)
\* ", ".join([f"{p}={v}" for p, v in its])
join(its, k) ==
  IF k > Len(its) THEN << >>
  ELSE (IF k > 1 THEN << ",", " " >> ELSE << >>)
         \o << its[k][1], "=" >> \o StrBool(its[k][2]) \o join(its, k + 1)

\* Python values a verdict is made of
PyNone      == [ t |-> "None" ]
PyBool(b)   == [ t |-> "bool", v |-> b ]
PyStr(txt)  == [ t |-> "str", v |-> txt ]
PyDict(its) == [ t |-> "dict", v |-> its ]
PyTuple(a, b) == [ shape |-> "tuple", first |-> a, second |-> b ]
\* a value returned on its own, not in a tuple
PyBare(txt) == [ shape |-> "str", v |-> txt ]
NoValue == [ shape |-> "none" ]

MsgLowercase ==
  "Error: Please use only uppercase letters (P, Q, R, etc.) for propositions."
MsgEmpty == "Error: Expression is empty."
MsgNoSymbolsApp == "Error: No propositional symbols found (use uppercase letters)."
MsgNoSymbolsChat == "Error: No propositional symbols found (use P, Q, R, etc.)."

\* the loop with its return left out: no result ends it
NoEarlyReturn(prog, result) == FALSE

\* the test that ends the loop with a counterexample:
\* "if not result" in app.py, "if result is False" in chat_bot12.py
IsCounterexample(prog, result) ==
  IF prog = "app" THEN ~Truthy(result) ELSE result = "False"

\* the second element of the (False, ...) return
Counterexample(prog, props, tuple) ==
  IF prog = "app" THEN PyStr(join(items(props, tuple), 1))
  ELSE PyDict(items(props, tuple))

\* the lowercase test of app.py, line 56
HasLower(expression) ==
  \E k \in 1..Len(expression) : isalpha(expression[k]) /\ islower(expression[k])

\* expression.isspace(): non-empty and all whitespace
IsSpaceText(expression) ==
  expression # << >> /\ \A k \in 1..Len(expression) : isspace(expression[k])

RECURSIVE loop(_, _, _, _)
\* the loop of check_validity from its k-th turn on, to the value returned
\* (app.py lines 70-80, chat_bot12.py lines 75-91)
loop(prog, expression, props, k) ==
  LET all == product(Len(props)) IN
  IF k > Len(all) THEN PyTuple(PyBool("True"), PyNone)
  ELSE IF IsCounterexample(prog,
            evaluate_expression(prog, expression, props, zip(props, all[k])))
       THEN PyTuple(PyBool("False"), Counterexample(prog, props, all[k]))
       ELSE loop(prog, expression, props, k + 1)

\* check_validity(expression) as one value: what a call returns
check_validity(prog, expression) ==
  LET ps == get_propositions(expression) IN
  IF prog = "app" /\ HasLower(expression)
  THEN PyTuple(PyStr(MsgLowercase), PyNone)
  ELSE IF ps = << >>
  THEN (IF prog = "chat" THEN PyBare(MsgNoSymbolsChat)
        ELSE IF expression = << >> \/ IsSpaceText(expression)
        THEN PyTuple(PyStr(MsgEmpty), PyNone)
        ELSE PyTuple(PyStr(MsgNoSymbolsApp), PyNone))
  ELSE loop(prog, expression, ps, 1)

\* the three verdicts a returned value stands for
IsInvalid(r) ==
  r.shape = "str" \/ (r.shape = "tuple" /\ r.first.t = "str")
IsTautology(r) ==
  r.shape = "tuple" /\ r.first.t = "bool" /\ r.first.v = "True"
IsNotTautology(r) ==
  r.shape = "tuple" /\ r.first.t = "bool" /\ r.first.v = "False"
\* the message of an Invalid verdict
Message(r) == IF r.shape = "str" THEN r.v ELSE r.first.v

\* -------------------------------------------------------------------- inputs
\* The pieces a user types: two variables, a lowercase letter, a space,
\* parentheses and the connectives.
Lexemes == { << "P" >>, << "Q" >>, << "p" >>, << " " >>, << "(" >>, << ")" >>,
             << "~" >>, << "^" >>, << "v" >>, << "-", ">" >>, << "<", "-", ">" >> }

RECURSIVE TextsOf(_)
\* the texts made of exactly n lexemes
TextsOf(n) ==
  IF n = 0 THEN { << >> }
  ELSE { t \o l : t \in TextsOf(n - 1), l \in Lexemes }
Texts == UNION { TextsOf(n) : n \in 0..MaxLen }

\* Formulas written without parentheses: up to MaxOperands operands, each a
\* variable or a negated variable, joined by connectives that are each written
\* with or without spaces around them.
MaxOperands == 2
Operands == { << "P" >>, << "Q" >>, << "~", "P" >> }
Connectives == { << "^" >>, << "v" >>, << "-", ">" >>, << "<", "-", ">" >> }
Joiners == Connectives \cup { << " " >> \o c \o << " " >> : c \in Connectives }
RECURSIVE ChainsOf(_)
ChainsOf(n) ==
  IF n = 1 THEN Operands
  ELSE { c \o j \o a : c \in ChainsOf(n - 1), j \in Joiners, a \in Operands }
Chains == UNION { ChainsOf(n) : n \in 1..MaxOperands }

\* The expressions the sources name (chat_bot12.py lines 138-141, the exit
\* command of line 109) and their parenthesized relatives.
Examples ==
  { << "P", " ", "v", " ", "~", "P" >>,
    << "(", "P", " ", "^", " ", "Q", ")", " ", "-", ">", " ", "Q" >>,
    << "P", " ", "-", ">", " ", "Q" >>,
    << "P", " ", "^", " ", "~", "P" >>,
    << "~", "(", "P", " ", "^", " ", "~", "P", ")" >>,
    << "~", "(", "P", " ", "^", " ", "~", "P", ")", " ", "v", " ", "Q" >>,
    << "!", "(", "P", " ", "&", " ", "!", "P", ")", " ", "&", " ", "!", "(", "Q", "^", "~", "Q", ")" >>,
    << "P", " ", "v", " ", "P", "-", ">", "Q" >>,
    << "P", " ", "v", " ", "Q", " ", "v", " ", "~", "P" >>,
    << "e", "x", "i", "t" >>, << "E", "x", "i", "t" >> }

Inputs == Texts \cup Chains \cup Examples

\* --------------------------------------------------------------------- state
VARIABLES
  pc,          \* "input", "check", "loop", "returned", "rendered", "exited"
  prog,        \* "app" or "chat": whose check_validity runs
  caller,      \* "index", "run_chatbot" or "direct"
  expression,  \* the argument of check_validity
  props,       \* get_propositions(expression)
  next,        \* index into all_assignments of the loop
  evaluated,   \* the assignment tuples handed to evaluate_expression so far
  results,     \* what evaluate_expression returned for each of them
  ret,         \* the value check_validity returned
  banner       \* what the front-end shows

vars == << pc, prog, caller, expression, props, next, evaluated, results, ret, banner >>

NoBanner == [ kind |-> "none" ]

Init ==
  /\ pc = "input"
  /\ prog = "none"
  /\ caller = "none"
  /\ expression = << >>
  /\ props = << >>
  /\ next = 1
  /\ evaluated = << >>
  /\ results = << >>
  /\ ret = NoValue
  /\ banner = NoBanner

\* ---------------------------------------------------------------- front-ends
\* index() of app.py on a GET, lines 86-87 and 106: the empty form
IndexGet ==
  /\ pc = "input"
  /\ pc' = "rendered"
  /\ prog' = "app"
  /\ caller' = "index"
  /\ UNCHANGED << expression, props, next, evaluated, results, ret, banner >>

\* index() of app.py on a POST up to the call, lines 88-91 and 103-104: the
\* field is stripped, and checked unless it is empty
IndexPost ==
  /\ pc = "input"
  /\ \E raw \in Inputs :
       LET e == strip(raw) IN
       /\ expression' = e
       /\ pc' = IF e # << >> THEN "check" ELSE "rendered"
       /\ banner' = IF e # << >> THEN NoBanner ELSE [ kind |-> "prompt" ]
  /\ prog' = "app"
  /\ caller' = "index"
  /\ UNCHANGED << props, next, evaluated, results, ret >>

\* run_chatbot() of chat_bot12.py up to the call, lines 105-117: exit ends the
\* loop, a blank line is skipped, anything else is checked
ReadLine ==
  /\ pc = "input"
  /\ \E raw \in Inputs :
       LET e == strip(raw) IN
       /\ expression' = e
       /\ pc' = IF lower(e) = << "e", "x", "i", "t" >> THEN "exited"
                ELSE IF e = << >> THEN "input"
                ELSE "check"
       /\ banner' = IF lower(e) = << "e", "x", "i", "t" >>
                    THEN [ kind |-> "goodbye" ] ELSE NoBanner
  /\ prog' = "chat"
  /\ caller' = "run_chatbot"
  /\ UNCHANGED << props, next, evaluated, results, ret >>

\* a caller of check_validity itself, as the commented calls of
\* chat_bot12.py lines 138-141: the argument is passed as it is
DirectCall ==
  /\ pc = "input"
  /\ \E p \in { "app", "chat" }, e \in Inputs :
       /\ prog' = p
       /\ expression' = e
  /\ caller' = "direct"
  /\ pc' = "check"
  /\ UNCHANGED << props, next, evaluated, results, ret, banner >>

\* ------------------------------------------------------------ check_validity
\* app.py lines 54-67, chat_bot12.py lines 56-72: the rejections, then the
\* truth table is set up
CheckValidity ==
  /\ pc = "check"
  /\ LET ps == get_propositions(expression) IN
     IF prog = "app" /\ HasLower(expression)
     THEN /\ ret' = PyTuple(PyStr(MsgLowercase), PyNone)
          /\ pc' = "returned"
          /\ UNCHANGED props
     ELSE IF ps = << >>
     THEN /\ ret' = IF prog = "chat" THEN PyBare(MsgNoSymbolsChat)
                    ELSE IF expression = << >> \/ IsSpaceText(expression)
                    THEN PyTuple(PyStr(MsgEmpty), PyNone)
                    ELSE PyTuple(PyStr(MsgNoSymbolsApp), PyNone)
          /\ pc' = "returned"
          /\ props' = ps
     ELSE /\ props' = ps
          /\ pc' = "loop"
          /\ UNCHANGED ret
  /\ next' = 1
  /\ UNCHANGED << prog, caller, expression, evaluated, results, banner >>

\* one turn of the loop, app.py lines 70-77, chat_bot12.py lines 75-88
LoopStep ==
  /\ pc = "loop"
  /\ next <= Len(product(Len(props)))
  /\ LET tuple  == product(Len(props))[next]
         result == evaluate_expression(prog, expression, props, zip(props, tuple))
     IN  /\ evaluated' = Append(evaluated, tuple)
         /\ results' = Append(results, result)
         /\ IF IsCounterexample(prog, result)
            THEN /\ ret' = PyTuple(PyBool("False"), Counterexample(prog, props, tuple))
                 /\ pc' = "returned"
                 /\ UNCHANGED next
            ELSE /\ next' = next + 1
                 /\ UNCHANGED << ret, pc >>
  /\ UNCHANGED << prog, caller, expression, props, banner >>

\* the loop ran out, app.py line 80, chat_bot12.py line 91
LoopEnd ==
  /\ pc = "loop"
  /\ next > Len(product(Len(props)))
  /\ ret' = PyTuple(PyBool("True"), PyNone)
  /\ pc' = "returned"
  /\ UNCHANGED << prog, caller, expression, props, next, evaluated, results, banner >>

\* ------------------------------------------------------------------ rendering
\* a Python value used as a condition
TruthyValue(x) ==
  CASE x.t = "None" -> FALSE
    [] x.t = "bool" -> x.v = "True"
    [] x.t = "str"  -> Len(x.v) > 0
    [] x.t = "dict" -> x.v # << >>

\* index() of app.py after the call, lines 92-102
IndexRender ==
  /\ pc = "returned"
  /\ caller = "index"
  /\ banner' =
       IF ret.shape = "tuple"
       THEN IF TruthyValue(ret.first)
            THEN [ kind |-> "tautology", expression |-> expression ]
            ELSE [ kind |-> "not_tautology", expression |-> expression,
                   counter |-> replace(replace(ret.second.v,
                                               << "T", "r", "u", "e" >>, << "T" >>),
                                       << "F", "a", "l", "s", "e" >>, << "F" >>) ]
       ELSE [ kind |-> "error", message |-> ret.v ]
  /\ pc' = "rendered"
  /\ UNCHANGED << prog, caller, expression, props, next, evaluated, results, ret >>

\* run_chatbot() of chat_bot12.py after the call, lines 117-133: unpacking a
\* string of more than two characters raises ValueError, caught at line 132
ReplRender ==
  /\ pc = "returned"
  /\ caller = "run_chatbot"
  /\ banner' =
       IF ret.shape # "tuple"
       THEN [ kind |-> "unexpected",
              message |-> "too many values to unpack (expected 2)" ]
       ELSE IF ret.first.t = "bool" /\ ret.first.v = "True"
       THEN [ kind |-> "tautology", expression |-> expression ]
       ELSE IF ret.first.t = "bool" /\ ret.first.v = "False"
       THEN [ kind |-> "not_tautology", expression |-> expression,
              counter |-> join(ret.second.v, 1) ]
       ELSE [ kind |-> "error", message |-> ret.first.v ]
  /\ pc' = "rendered"
  /\ UNCHANGED << prog, caller, expression, props, next, evaluated, results, ret >>

\* the request is answered, the REPL is back at its prompt, the direct caller
\* has its value: the next input starts from a clean slate
Again ==
  /\ \/ pc = "rendered"
     \/ pc = "returned" /\ caller = "direct"
  /\ pc' = "input"
  /\ prog' = "none"
  /\ caller' = "none"
  /\ expression' = << >>
  /\ props' = << >>
  /\ next' = 1
  /\ evaluated' = << >>
  /\ results' = << >>
  /\ ret' = NoValue
  /\ banner' = NoBanner

Next ==
  \/ IndexGet
  \/ IndexPost
  \/ ReadLine
  \/ DirectCall
  \/ CheckValidity
  \/ LoopStep
  \/ LoopEnd
  \/ IndexRender
  \/ ReplRender
  \/ Again

Spec == Init /\ [][Next]_vars

\* ------------------------------------------------- the language of formulas
\* What the properties below call a well-formed formula and its truth value:
\* single uppercase-letter variables, parentheses, ~ ! (not), ^ & (and),
\* v (or), -> (implies), <-> (iff); precedence NOT > AND > OR > IMPLIES > IFF,
\* the binary connectives right-recursive; whitespace between tokens ignored.
RECURSIVE FormulaPieces(_, _)
\* the tokens of a text, each with the text it was read from (the spaces before
\* it included): [tok, raw]; lead is the run of spaces read so far
FormulaPieces(s, lead) ==
  LET piece(tok, n) == << [ tok |-> tok, raw |-> lead \o SubSeq(s, 1, n) ] >>
                         \o FormulaPieces(Drop(s, n), << >>)
  IN
  IF s = << >> THEN << >>
  ELSE IF isspace(s[1]) THEN FormulaPieces(Tail(s), Append(lead, s[1]))
  ELSE IF Len(s) >= 3 /\ SubSeq(s, 1, 3) = << "<", "-", ">" >> THEN piece("<->", 3)
  ELSE IF Len(s) >= 2 /\ SubSeq(s, 1, 2) = << "-", ">" >> THEN piece("->", 2)
  ELSE IF s[1] \in { "~", "!" } THEN piece("~", 1)
  ELSE IF s[1] \in { "^", "&" } THEN piece("^", 1)
  ELSE IF s[1] \in Upper \cup { "v", "(", ")" } THEN piece(s[1], 1)
  ELSE piece("?", 1)
FormulaTokens(s) ==
  LET ps == FormulaPieces(s, << >>) IN [ k \in 1..Len(ps) |-> ps[k].tok ]

LevelBelow(level) ==
  CASE level = "<->" -> "->"
    [] level = "->"  -> "v"
    [] level = "v"   -> "^"
    [] level = "^"   -> "~"

RECURSIVE FormulaRule(_, _, _)
\* the formula of the given precedence level starting at token i
FormulaRule(level, toks, i) ==
  IF i > Len(toks) THEN Fail
  ELSE IF level = "~"
  THEN IF toks[i] = "~"
       THEN LET r == FormulaRule("~", toks, i + 1) IN
            IF r.ok THEN Ok(r.i, [ op |-> "~", at |-> i, a |-> r.ast ]) ELSE Fail
       ELSE IF toks[i] = "("
       THEN LET r == FormulaRule("<->", toks, i + 1) IN
            IF r.ok /\ r.i <= Len(toks) /\ toks[r.i] = ")"
            THEN Ok(r.i + 1, r.ast) ELSE Fail
       ELSE IF toks[i] \in Upper
       THEN Ok(i + 1, [ op |-> "var", at |-> i, id |-> toks[i] ])
       ELSE Fail
  ELSE LET a == FormulaRule(LevelBelow(level), toks, i) IN
       IF ~a.ok THEN Fail
       ELSE IF a.i <= Len(toks) /\ toks[a.i] = level
            THEN LET r == FormulaRule(level, toks, a.i + 1) IN
                 IF r.ok
                 THEN Ok(r.i, [ op |-> level, at |-> a.i, a |-> a.ast, b |-> r.ast ])
                 ELSE Fail
            ELSE a

FormulaParse(s) ==
  LET toks == FormulaTokens(s)
      r    == FormulaRule("<->", toks, 1)
  IN  IF r.ok /\ r.i = Len(toks) + 1 THEN r ELSE Fail

WellFormed(s) == FormulaParse(s).ok

RECURSIVE Holds(_, _)
\* the truth value of a formula under an assignment ("True"/"False" per variable)
Holds(f, asg) ==
  CASE f.op = "var" -> asg[f.id] = "True"
    [] f.op = "~"   -> ~Holds(f.a, asg)
    [] f.op = "^"   -> Holds(f.a, asg) /\ Holds(f.b, asg)
    [] f.op = "v"   -> Holds(f.a, asg) \/ Holds(f.b, asg)
    [] f.op = "->"  -> ~Holds(f.a, asg) \/ Holds(f.b, asg)
    [] f.op = "<->" -> Holds(f.a, asg) = Holds(f.b, asg)

\* the variables of a text, sorted, and the rows of its truth table in the order
\* first variable outer-most, True before False
Variables(s) == SelectSeq(UpperSeq, LAMBDA c : \E k \in 1..Len(s) : s[k] = c)
RECURSIVE Rows(_)
Rows(n) ==
  IF n = 0 THEN << << >> >>
  ELSE LET rest == Rows(n - 1) IN
       [ k \in 1..Len(rest) |-> << "True" >> \o rest[k] ]
         \o [ k \in 1..Len(rest) |-> << "False" >> \o rest[k] ]
Row(s, k) ==
  LET vs == Variables(s) IN
  [ c \in { vs[j] : j \in 1..Len(vs) } |->
      Rows(Len(vs))[k][CHOOSE j \in 1..Len(vs) : vs[j] = c] ]
NumRows(s) == Len(Rows(Len(Variables(s))))
TrueAt(s, k) == Holds(FormulaParse(s).ast, Row(s, k))
ValidFormula(s) == \A k \in 1..NumRows(s) : TrueAt(s, k)
\* the first row that falsifies a formula that is not valid
FirstFalse(s) ==
  CHOOSE k \in 1..NumRows(s) : ~TrueAt(s, k) /\ \A j \in 1..(k - 1) : TrueAt(s, j)

RECURSIVE Bracketed(_, _)
\* a formula with parentheses put around every binary connective and its two
\* operands; each token is written as it was in the text, spaces included
Bracketed(f, pieces) ==
  CASE f.op = "var" -> pieces[f.at].raw
    [] f.op = "~"   -> pieces[f.at].raw \o Bracketed(f.a, pieces)
    [] OTHER        -> << "(" >> \o Bracketed(f.a, pieces) \o pieces[f.at].raw
                         \o Bracketed(f.b, pieces) \o << ")" >>
\* the fully parenthesized form of a well-formed text
Parenthesized(s) == Bracketed(FormulaParse(s).ast, FormulaPieces(s, << >>))

\* a text with its spaces removed
Unspaced(s) == SelectSeq(s, LAMBDA c : ~isspace(c))

Contains(s, piece) ==
  \E k \in 1..(Len(s) - Len(piece) + 1) : SubSeq(s, k, k + Len(piece) - 1) = piece

Returned == pc = "returned"

\* -------------------------------------------------------------- properties
\* C1: for a well-formed formula, check_validity returns the Tautology verdict
\* (True, None) exactly when the formula is true under every assignment.
TautologyIffValid ==
  (Returned /\ WellFormed(expression) /\ Variables(expression) # << >>)
    => (IsTautology(ret) <=> ValidFormula(expression))

\* C2: a NotTautology verdict on a well-formed formula reports the first row, in
\* the order first variable outer-most and True before False, that makes the
\* formula false.
CounterexampleIsFirstFalse ==
  (Returned /\ WellFormed(expression) /\ IsNotTautology(ret))
    => /\ ~ValidFormula(expression)
       /\ ret.second =
            Counterexample(prog, Variables(expression),
                           Rows(Len(Variables(expression)))[FirstFalse(expression)])

\* C3: an input that is not a well-formed formula gets the Invalid verdict,
\* never Tautology or NotTautology.
MalformedIsInvalid ==
  (Returned /\ ~WellFormed(expression)) => IsInvalid(ret)

\* C4: an input with a lowercase letter other than v is Invalid, and a
\* well-formed formula is not rejected for its connective v.
OtherLowercase(s) == \E k \in 1..Len(s) : s[k] \in Lower \ { "v" }
LowercaseRule ==
  Returned =>
    /\ OtherLowercase(expression) => IsInvalid(ret)
    /\ (WellFormed(expression) /\ Contains(expression, << "v" >>))
         => ~IsInvalid(ret)

\* C5: <-> is one connective: the text handed to eval() never holds a < left
\* over from it, and a well-formed formula with <-> evaluates, under each
\* assignment tried, to its truth value with A <-> B read as Iff(A, B).
Rewritten == IF prog = "app" THEN RewriteApp(expression) ELSE RewriteChat(expression)
IffIsOneConnective ==
  (/\ Len(evaluated) > 0
   /\ WellFormed(expression)
   /\ Contains(expression, << "<", "-", ">" >>))
    => /\ ~Contains(Rewritten, << "<" >>)
       /\ \A k \in 1..Len(results) :
            results[k] = (IF TrueAt(expression, k) THEN "True" ELSE "False")

\* the text handed to eval() holds only the characters PyTokenize knows
RewrittenAlphabet ==
  Len(evaluated) > 0 =>
    \A k \in 1..Len(Rewritten) :
      Rewritten[k] \in Upper \cup Lower \cup { " ", "(", ")", "<" }

\* C6: a formula written without parentheses gets the verdict and the
\* counterexample of its fully parenthesized form.
NoParentheses(s) == ~Contains(s, << "(" >>) /\ ~Contains(s, << ")" >>)
PrecedenceAsParenthesized ==
  (Returned /\ WellFormed(expression) /\ NoParentheses(expression))
    => ret = check_validity(prog, Parenthesized(expression))

\* C7: removing the spaces between the tokens of a formula changes neither the
\* verdict nor the counterexample.
SpacesDoNotMatter ==
  (Returned /\ WellFormed(expression))
    => ret = check_validity(prog, Unspaced(expression))

\* C8: with n distinct variables at most 2^n assignments are evaluated, each
\* once; exactly 2^n when the verdict is Tautology; and none after the first
\* one whose result is False.
EnumerationBound ==
  LET n == Len(Variables(expression)) IN
  /\ Len(evaluated) <= 2^n
  /\ \A i, j \in 1..Len(evaluated) : i # j => evaluated[i] # evaluated[j]
  /\ (pc \in { "returned", "rendered" } /\ IsTautology(ret)) => Len(evaluated) = 2^n
  /\ \A k \in 1..Len(results) : results[k] = "False" => k = Len(results)
\* a two-variable formula found a tautology after all four rows
EnumerationBoundWitness ==
  /\ Returned
  /\ IsTautology(ret)
  /\ Len(Variables(expression)) = 2
  /\ Len(evaluated) = 4

\* C9: an input without an uppercase letter gets the Invalid verdict with a
\* non-empty message, and no assignment is evaluated for it.
NoVariablesIsInvalid ==
  (Variables(expression) = << >>)
    => /\ evaluated = << >>
       /\ pc # "loop"
       /\ Returned => (IsInvalid(ret) /\ Len(Message(ret)) > 0)
\* check_validity called with a whitespace-only text has answered Invalid
NoVariablesWitness ==
  /\ Returned
  /\ caller = "direct"
  /\ IsSpaceText(expression)
  /\ IsInvalid(ret)

\* C10: an Invalid verdict is shown by the front-end as the error banner with
\* the verdict's message.
InvalidShownAsError ==
  (pc = "rendered" /\ ret # NoValue /\ IsInvalid(ret))
    => (banner.kind = "error" /\ banner.message = Message(ret))

====
